---- MODULE Spec2Model ----
(***************************************************************************)
(* Verification model of the defmt logging transport of caliptra-mcu-sw:   *)
(*                                                                         *)
(*   producer  platforms/emulator/runtime/userspace/apps/defmt-logger/     *)
(*             src/logger_a.rs  (Encoder::acquire / write / release and    *)
(*             the transport framer write_bytes)                           *)
(*   consumer  tools/emulator-run/src/main.rs (main, notmain, decode,      *)
(*             KillOnDrop)                                                 *)
(*                                                                         *)
(* Text is modelled as a sequence of UTF-8 code units.  An ASCII character *)
(* is the one-character string holding it; the two code units of a         *)
(* two-byte character are the tokens Lead and Cont.                        *)
(***************************************************************************)
EXTENDS Integers, Sequences, FiniteSets, TLC

(***************************************************************************)
(* Bounds of the model.                                                    *)
(***************************************************************************)
\* calls of acquire/write/release issued over one run of the producer
MaxCalls == 4
\* length of the byte slice passed to one write call
MaxWriteLen == 2

\* byte values used as inputs of write: 0x0A, 0xAF
SampleBytes == {10, 175}

RECURSIVE SeqsUpTo(_, _)
SeqsUpTo(S, n) ==
  IF n = 0 THEN {<<>>}
  ELSE LET shorter == SeqsUpTo(S, n - 1)
       IN  shorter \cup {Append(s, x) : s \in {t \in shorter : Len(t) = n - 1}, x \in S}

(***************************************************************************)
(* Text helpers (Rust str methods used by both sides).                     *)
(***************************************************************************)
StartsWith(s, p) == Len(s) >= Len(p) /\ SubSeq(s, 1, Len(p)) = p

EndsWith(s, p) == Len(s) >= Len(p) /\ SubSeq(s, Len(s) - Len(p) + 1, Len(s)) = p

Contains(s, ch) == \E i \in 1..Len(s) : s[i] = ch

\* Option<&str>: some = FALSE is None
StripPrefix(s, p) ==
  IF StartsWith(s, p) THEN [some |-> TRUE, v |-> SubSeq(s, Len(p) + 1, Len(s))]
  ELSE [some |-> FALSE, v |-> <<>>]

StripSuffix(s, p) ==
  IF EndsWith(s, p) THEN [some |-> TRUE, v |-> SubSeq(s, 1, Len(s) - Len(p))]
  ELSE [some |-> FALSE, v |-> <<>>]

(***************************************************************************)
(* Producer: transport framer (logger_a.rs, write_bytes).                  *)
(***************************************************************************)
HexDigits == <<"0", "1", "2", "3", "4", "5", "6", "7",
               "8", "9", "A", "B", "C", "D", "E", "F">>

\* the marker literal written by logger A
ProducerMarker == <<"[", "D", "E", "F", "M", "T", "-", "A", ":">>

\* "{:X}": no zero padding (used as a fault of HexByte)
HexByteNoPad(b) ==
  IF b < 16 THEN <<HexDigits[b + 1]>>
  ELSE <<HexDigits[(b \div 16) + 1], HexDigits[(b % 16) + 1]>>

\* write!(console, "{:02X}", byte)
HexByte(b) == <<HexDigits[(b \div 16) + 1], HexDigits[(b % 16) + 1]>>

RECURSIVE HexPayload(_)
HexPayload(bytes) ==
  IF bytes = <<>> THEN <<>> ELSE HexByte(Head(bytes)) \o HexPayload(Tail(bytes))

\* the line one write_bytes call puts on the console
write_bytes(bytes) == ProducerMarker \o HexPayload(bytes) \o <<"]", "\n">>

(***************************************************************************)
(* Consumer: line demultiplexer (main.rs, notmain, lines 77-99).           *)
(***************************************************************************)
\* the marker literal the consumer recognises
Marker == <<"[", "D", "E", "F", "M", "T", ":">>

\* the two code units of a two-byte UTF-8 character
Lead == "<C3>"
Cont == "<A9>"

LowerHexDigits == <<"0", "1", "2", "3", "4", "5", "6", "7",
                    "8", "9", "a", "b", "c", "d", "e", "f">>

\* char::to_digit(16); -1 when ch is no digit
ToDigit16(ch) ==
  IF \E i \in 1..16 : HexDigits[i] = ch
    THEN (CHOOSE i \in 1..16 : HexDigits[i] = ch) - 1
  ELSE IF \E i \in 1..16 : LowerHexDigits[i] = ch
    THEN (CHOOSE i \in 1..16 : LowerHexDigits[i] = ch) - 1
  ELSE -1

RECURSIVE DigitsValue(_, _)
DigitsValue(digits, acc) ==
  IF digits = <<>> THEN acc
  ELSE DigitsValue(Tail(digits), acc * 16 + ToDigit16(Head(digits)))

\* u8::from_str_radix(src, 16): an optional leading "+", then only digits, at most 255
FromStrRadix16(src) ==
  LET digits == IF src # <<>> /\ Head(src) = "+" THEN Tail(src) ELSE src
  IN  IF digits = <<>> \/ \E i \in 1..Len(digits) : ToDigit16(digits[i]) < 0
        THEN [ok |-> FALSE, v |-> 0]
      ELSE IF DigitsValue(digits, 0) > 255 THEN [ok |-> FALSE, v |-> 0]
      ELSE [ok |-> TRUE, v |-> DigitsValue(digits, 0)]

\* str::is_char_boundary(idx), idx a 0-based byte index
IsCharBoundary(s, idx) ==
  \/ idx = 0
  \/ idx = Len(s)
  \/ idx < Len(s) /\ s[idx + 1] # Cont

\* lines 81-88: for i in (0..len).step_by(2), slicing &hex_str[i..i+2];
\* the slice panics when an end is not a character boundary
RECURSIVE HexLoop(_, _, _)
HexLoop(h, i, acc) ==
  IF i >= Len(h) THEN [panic |-> FALSE, bytes |-> acc]
  ELSE IF i + 1 < Len(h)
    THEN IF ~(IsCharBoundary(h, i) /\ IsCharBoundary(h, i + 2))
           THEN [panic |-> TRUE, bytes |-> acc]
         ELSE LET r == FromStrRadix16(SubSeq(h, i + 1, i + 2))
              IN  HexLoop(h, i + 2, IF r.ok THEN Append(acc, r.v) ELSE acc)
  ELSE HexLoop(h, i + 2, acc)

\* the bytes recovered from a hex payload substring (the substring is a value
\* by the time the loop scans it)
HexBytes(hex_str) == CHOOSE r \in {HexLoop(h, 0, <<>>) : h \in {hex_str}} : TRUE

\* line 79: strip_prefix(marker), then strip_suffix("]\n") or else strip_suffix("]")
HexStr(line) ==
  LET p == StripPrefix(line, Marker)
      s == StripSuffix(p.v, <<"]", "\n">>)
  IN  IF ~p.some THEN p
      ELSE IF s.some THEN s
      ELSE StripSuffix(p.v, <<"]">>)

\* line 77: the test that sends a line to the decoder branch
IsFramed(line) == StartsWith(line, Marker) /\ Contains(line, "]")

\* a plain-text branch that drops the line terminator (used as a fault of PlainOut)
PlainOutTrimmed(line) ==
  IF line # <<>> /\ line[Len(line)] = "\n" THEN SubSeq(line, 1, Len(line) - 1) ELSE line

\* line 98: print!("{}", line)
PlainOut(line) == line

\* line 91: if !bytes.is_empty()
ShouldFeed(bytes) == bytes # <<>>

\* What one Ok(_) read does with its line (lines 75-100):
\*   "feed"    decoder.received(bytes) and one drain
\*   "nofeed"  a payload was extracted and gave no byte
\*   "dropped" the framed test passed and no payload could be stripped
\*   "print"   the line is written to standard output
\*   "panic"   the payload slice panicked
ProcessLine(line) ==
  IF IsFramed(line)
    THEN LET h == HexStr(line)
             r == HexBytes(h.v)
         IN  IF ~h.some THEN [kind |-> "dropped", bytes |-> <<>>, out |-> <<>>]
             ELSE IF r.panic THEN [kind |-> "panic", bytes |-> <<>>, out |-> <<>>]
             ELSE IF ShouldFeed(r.bytes) THEN [kind |-> "feed", bytes |-> r.bytes, out |-> <<>>]
             ELSE [kind |-> "nofeed", bytes |-> <<>>, out |-> <<>>]
  ELSE [kind |-> "print", bytes |-> <<>>, out |-> PlainOut(line)]

(***************************************************************************)
(* The streaming decoder (defmt_decoder::StreamDecoder).  Its wire format  *)
(* is abstracted: the byte FrameEnd closes a frame, and a frame is         *)
(* well-formed when its body is not empty and holds no BadByte.            *)
(***************************************************************************)
FrameEnd == 0
BadByte == 255

WellFormed(body) == body # <<>> /\ \A i \in 1..Len(body) : body[i] # BadByte

HasFrameEnd(cur) == \E i \in 1..Len(cur) : cur[i] = FrameEnd

FirstEnd(cur) == CHOOSE i \in 1..Len(cur) : cur[i] = FrameEnd /\ \A j \in 1..(i - 1) : cur[j] # FrameEnd

\* StreamDecoder::received: the bytes are appended to what the cursor holds
Received(cur, bytes) == cur \o bytes

\* StreamDecoder::decode: the next frame, "eof" when no frame is complete yet,
\* "malformed" when the next complete frame does not decode (it is consumed)
DecodeNext(cur) ==
  IF ~HasFrameEnd(cur) THEN [res |-> "eof", frame |-> <<>>, rest |-> cur]
  ELSE LET k == FirstEnd(cur)
           body == SubSeq(cur, 1, k - 1)
           rest == SubSeq(cur, k + 1, Len(cur))
       IN  IF WellFormed(body) THEN [res |-> "frame", frame |-> body, rest |-> rest]
           ELSE [res |-> "malformed", frame |-> <<>>, rest |-> rest]

\* a feed that starts from an empty cursor (used as a fault of FeedCursor)
FeedFreshCursor(cur, bytes) == Received(<<>>, bytes)

\* line 92: decoder.received(&bytes) on the one decoder made at line 61
FeedCursor(cur, bytes) == Received(cur, bytes)

\* a drain that reports malformed data as an error (used as a fault of Drain)
RECURSIVE DrainFailOnMalformed(_, _)
DrainFailOnMalformed(cur, out) ==
  LET d == DecodeNext(cur)
  IN  IF d.res = "frame" THEN DrainFailOnMalformed(d.rest, Append(out, d.frame))
      ELSE [ok |-> d.res # "malformed", end |-> d.res, cursor |-> d.rest, frames |-> out]

\* decode, lines 115-129: render frames until the cursor reports UnexpectedEof
\* or Malformed; both return Ok(())
RECURSIVE Drain(_, _)
Drain(cur, out) ==
  LET d == DecodeNext(cur)
  IN  IF d.res = "frame" THEN Drain(d.rest, Append(out, d.frame))
      ELSE [ok |-> TRUE, end |-> d.res, cursor |-> d.rest, frames |-> out]

\* line 49: .stderr(Stdio::piped())
StderrCfg == "piped"

(***************************************************************************)
(* State.                                                                  *)
(***************************************************************************)
VARIABLES
  \* ---- producer (logger_a.rs) ----
  taken,        \* Encoder.taken
  cs_restore,   \* Encoder.cs_restore
  irqEnabled,   \* platform interrupt enable; the critical section is held iff FALSE
  irqActive,    \* the interrupt-like context is running (it preempts main)
  pc,           \* per context: position inside acquire/write/release
  op,           \* per context: the call in progress, or the last one made
  restore,      \* per context: the local `restore` of acquire / release
  wbytes,       \* per context: the `bytes` argument of the write in progress
  myFrame,      \* per context: number of the frame it started last
  nframes,      \* codec: start_frame calls so far
  openFrames,   \* codec: start_frame calls not yet matched by end_frame
  codecCalls,   \* codec: the calls it received, in order
  console,      \* console sink: the lines write_bytes wrote, in order
  panicked,     \* the process aborted in panic!
  ncalls,       \* calls issued so far (bounded by MaxCalls)
  irqBefore,    \* per context: the interrupt enable just before its last acquire
  issued,       \* the byte slices of the write calls that passed the lock test, in order
  \* ---- consumer (emulator-run main.rs) ----
  cpc,          \* position of notmain: "start", "spawn", "loop", "returned"
  cause,        \* why the run ended ("none" while it runs)
  diag,         \* an error diagnostic was printed on standard error
  exitStatus,   \* exit status of the consumer process (-1 while it runs)
  childState,   \* "none", "running", "exited", "killed"
  childCode,    \* ExitStatus::code() of the child: some = FALSE is None
  stdoutOpen,   \* the child still holds the write end of its standard output
  pipe,         \* lines written by the child and not yet read
  nwritten,     \* lines the child wrote so far (bounded by MaxLines)
  printed,      \* lines the consumer wrote to its standard output
  feeds,        \* byte vectors passed to decoder.received, in order
  drains,       \* calls of decode
  cursor,       \* bytes the decoder holds and has not yet turned into a frame
  rendered,     \* frames written to the diagnostic output, in order
  drainLog,     \* per drain: its result, how it ended, the frames it rendered
  kinds,        \* per line read: what the loop did with it
  stderrHeld,   \* child standard-error lines sitting in a pipe the consumer owns
  stderrShown   \* child standard-error lines that went to the inherited stream

pvars == <<taken, cs_restore, irqEnabled, irqActive, pc, op, restore, wbytes, myFrame,
           nframes, openFrames, codecCalls, console, panicked, ncalls,
           irqBefore, issued>>

decvars == <<cursor, rendered, drainLog, kinds>>

errvars == <<stderrHeld, stderrShown>>

cvars == <<cpc, cause, diag, exitStatus, childState, childCode, stdoutOpen, pipe,
           nwritten, printed, feeds, drains, decvars, errvars>>

vars == <<pvars, cvars>>

Ctx == {"main", "irq"}

WriteInputs == SeqsUpTo(SampleBytes, MaxWriteLen)

\* what the codec may still hold when the frame ends: nothing, or a terminator
EndFrameTails == {<<>>, <<0>>}

(***************************************************************************)
(* Critical-section primitive (supplied by the application, lib.rs 7-11).  *)
(***************************************************************************)
\* critical_section::acquire(): the token tells whether interrupts were on
CsToken(enabled) == IF enabled THEN "was_enabled" ELSE "was_disabled"

\* critical_section::release(token): the interrupt enable afterwards
CsRelease(token, enabled) == IF token = "was_enabled" THEN TRUE ELSE enabled

InitProducer ==
  /\ taken = FALSE
  /\ cs_restore = "invalid"
  /\ irqEnabled = TRUE
  /\ irqActive = FALSE
  /\ pc = [c \in Ctx |-> "idle"]
  /\ op = [c \in Ctx |-> "none"]
  /\ restore = [c \in Ctx |-> "invalid"]
  /\ wbytes = [c \in Ctx |-> <<>>]
  /\ myFrame = [c \in Ctx |-> 0]
  /\ nframes = 0
  /\ openFrames = 0
  /\ codecCalls = <<>>
  /\ console = <<>>
  /\ panicked = FALSE
  /\ ncalls = 0
  /\ irqBefore = [c \in Ctx |-> TRUE]
  /\ issued = <<>>

\* context c is the one executing
Running(c) ==
  /\ ~panicked
  /\ IF irqActive THEN c = "irq" ELSE c = "main"

CanCall(c) == Running(c) /\ pc[c] = "idle" /\ ncalls < MaxCalls

\* the codec's flush callback: one console line, tagged with the frame of the caller
Emit(c, bytes) ==
  Append(console, [frame |-> myFrame[c], ctx |-> c, bytes |-> bytes,
                   text |-> write_bytes(bytes)])

\* `if self.taken.load(..) { panic!(..) }` left out (used as a fault of AcquireTaken)
AcquireTakenUnchecked(t) == FALSE

\* acquire, line 45: the reentrancy test
AcquireTaken(t) == t

\* ---- Encoder::acquire, lines 39-59 ----
AcquireEnter(c) ==
  /\ CanCall(c)
  /\ ncalls' = ncalls + 1
  /\ restore' = [restore EXCEPT ![c] = CsToken(irqEnabled)]
  /\ irqBefore' = [irqBefore EXCEPT ![c] = irqEnabled]
  /\ irqEnabled' = FALSE
  /\ pc' = [pc EXCEPT ![c] = "acq_check"]
  /\ op' = [op EXCEPT ![c] = "acquire"]
  /\ UNCHANGED <<issued, taken, cs_restore, irqActive, wbytes, myFrame, nframes, openFrames,
                 codecCalls, console, panicked>>

AcquireCheck(c) ==
  /\ Running(c) /\ pc[c] = "acq_check"
  /\ IF AcquireTaken(taken)
       THEN /\ panicked' = TRUE
            /\ pc' = [pc EXCEPT ![c] = "panic"]
            /\ UNCHANGED taken
       ELSE /\ taken' = TRUE
            /\ pc' = [pc EXCEPT ![c] = "acq_start"]
            /\ UNCHANGED panicked
  /\ UNCHANGED <<irqBefore, issued, op, cs_restore, irqEnabled, irqActive, restore, wbytes, myFrame, nframes,
                 openFrames, codecCalls, console, ncalls>>

\* an acquire that does not store the token (used as a fault of AcquireStart)
AcquireStartNoStore(c) ==
  /\ Running(c) /\ pc[c] = "acq_start"
  /\ nframes' = nframes + 1
  /\ myFrame' = [myFrame EXCEPT ![c] = nframes + 1]
  /\ openFrames' = openFrames + 1
  /\ codecCalls' = Append(codecCalls, [op |-> "start_frame", bytes |-> <<>>, ctx |-> c])
  /\ pc' = [pc EXCEPT ![c] = "idle"]
  /\ UNCHANGED <<irqBefore, issued, op, taken, cs_restore, irqEnabled, irqActive, restore,
                 wbytes, console, panicked, ncalls>>

\* lines 54-58: store the token, start the frame
AcquireStart(c) ==
  /\ Running(c) /\ pc[c] = "acq_start"
  /\ cs_restore' = restore[c]
  /\ nframes' = nframes + 1
  /\ myFrame' = [myFrame EXCEPT ![c] = nframes + 1]
  /\ openFrames' = openFrames + 1
  /\ codecCalls' = Append(codecCalls, [op |-> "start_frame", bytes |-> <<>>, ctx |-> c])
  /\ pc' = [pc EXCEPT ![c] = "idle"]
  /\ UNCHANGED <<irqBefore, issued, op, taken, irqEnabled, irqActive, restore, wbytes, console, panicked, ncalls>>

\* ---- Encoder::write, lines 80-91 ----
WriteCheck(c) ==
  /\ CanCall(c)
  /\ ncalls' = ncalls + 1
  /\ op' = [op EXCEPT ![c] = "write"]
  /\ \E b \in WriteInputs :
       IF ~taken
         THEN /\ panicked' = TRUE
              /\ pc' = [pc EXCEPT ![c] = "panic"]
              /\ UNCHANGED <<wbytes, issued>>
         ELSE /\ wbytes' = [wbytes EXCEPT ![c] = b]
              /\ issued' = Append(issued, b)
              /\ pc' = [pc EXCEPT ![c] = "wr_codec"]
              /\ UNCHANGED panicked
  /\ UNCHANGED <<irqBefore, taken, cs_restore, irqEnabled, irqActive, restore, myFrame, nframes,
                 openFrames, codecCalls, console>>

WriteCodec(c) ==
  /\ Running(c) /\ pc[c] = "wr_codec"
  /\ codecCalls' = Append(codecCalls, [op |-> "write", bytes |-> wbytes[c], ctx |-> c])
  /\ console' = Emit(c, wbytes[c])
  /\ wbytes' = [wbytes EXCEPT ![c] = <<>>]
  /\ pc' = [pc EXCEPT ![c] = "idle"]
  /\ UNCHANGED <<irqBefore, issued, op, taken, cs_restore, irqEnabled, irqActive, restore, myFrame, nframes,
                 openFrames, panicked, ncalls>>

\* a release without the lock test (used as a fault of ReleaseCheck)
ReleaseCheckUnchecked(c) ==
  /\ CanCall(c)
  /\ ncalls' = ncalls + 1
  /\ op' = [op EXCEPT ![c] = "release"]
  /\ pc' = [pc EXCEPT ![c] = "rel_end"]
  /\ UNCHANGED <<irqBefore, issued, taken, cs_restore, irqEnabled, irqActive, restore, wbytes,
                 myFrame, nframes, openFrames, codecCalls, console, panicked>>

\* ---- Encoder::release, lines 62-77 ----
ReleaseCheck(c) ==
  /\ CanCall(c)
  /\ ncalls' = ncalls + 1
  /\ op' = [op EXCEPT ![c] = "release"]
  /\ IF ~taken
       THEN /\ panicked' = TRUE
            /\ pc' = [pc EXCEPT ![c] = "panic"]
       ELSE /\ pc' = [pc EXCEPT ![c] = "rel_end"]
            /\ UNCHANGED panicked
  /\ UNCHANGED <<irqBefore, issued, taken, cs_restore, irqEnabled, irqActive, restore, wbytes, myFrame,
                 nframes, openFrames, codecCalls, console>>

ReleaseEndFrame(c) ==
  /\ Running(c) /\ pc[c] = "rel_end"
  /\ \E tail \in EndFrameTails :
       /\ codecCalls' = Append(codecCalls, [op |-> "end_frame", bytes |-> tail, ctx |-> c])
       /\ console' = Emit(c, tail)
  /\ openFrames' = openFrames - 1
  /\ pc' = [pc EXCEPT ![c] = "rel_restore"]
  /\ UNCHANGED <<irqBefore, issued, op, taken, cs_restore, irqEnabled, irqActive, restore, wbytes, myFrame,
                 nframes, panicked, ncalls>>

\* a release that leaves `taken` set (used as a fault of ReleaseRestore)
ReleaseRestoreKeepTaken(c) ==
  /\ Running(c) /\ pc[c] = "rel_restore"
  /\ restore' = [restore EXCEPT ![c] = cs_restore]
  /\ pc' = [pc EXCEPT ![c] = "rel_cs"]
  /\ UNCHANGED <<irqBefore, issued, op, taken, cs_restore, irqEnabled, irqActive, wbytes, myFrame, nframes,
                 openFrames, codecCalls, console, panicked, ncalls>>

\* a release that writes the invalid token back (used as a fault of ReleaseRestore)
ReleaseRestoreInvalidate(c) ==
  /\ Running(c) /\ pc[c] = "rel_restore"
  /\ restore' = [restore EXCEPT ![c] = cs_restore]
  /\ cs_restore' = "invalid"
  /\ taken' = FALSE
  /\ pc' = [pc EXCEPT ![c] = "rel_cs"]
  /\ UNCHANGED <<irqBefore, issued, op, irqEnabled, irqActive, wbytes, myFrame, nframes,
                 openFrames, codecCalls, console, panicked, ncalls>>

\* lines 72-73: read the stored token, clear `taken`
ReleaseRestore(c) ==
  /\ Running(c) /\ pc[c] = "rel_restore"
  /\ restore' = [restore EXCEPT ![c] = cs_restore]
  /\ taken' = FALSE
  /\ pc' = [pc EXCEPT ![c] = "rel_cs"]
  /\ UNCHANGED <<irqBefore, issued, op, cs_restore, irqEnabled, irqActive, wbytes, myFrame, nframes, openFrames,
                 codecCalls, console, panicked, ncalls>>

ReleaseCs(c) ==
  /\ Running(c) /\ pc[c] = "rel_cs"
  /\ irqEnabled' = CsRelease(restore[c], irqEnabled)
  /\ pc' = [pc EXCEPT ![c] = "idle"]
  /\ UNCHANGED <<irqBefore, issued, op, taken, cs_restore, irqActive, restore, wbytes, myFrame, nframes,
                 openFrames, codecCalls, console, panicked, ncalls>>

(***************************************************************************)
(* The interrupt-like context: it is entered only while interrupts are     *)
(* enabled, runs with them masked, and returns between logging sequences.  *)
(***************************************************************************)
IrqEnter ==
  /\ ~panicked /\ ~irqActive /\ irqEnabled
  /\ ncalls < MaxCalls
  /\ irqActive' = TRUE
  /\ irqEnabled' = FALSE
  /\ UNCHANGED <<irqBefore, issued, op, taken, cs_restore, pc, restore, wbytes, myFrame, nframes, openFrames,
                 codecCalls, console, panicked, ncalls>>

IrqReturn ==
  /\ ~panicked /\ irqActive /\ pc["irq"] = "idle"
  /\ ~taken
  /\ irqActive' = FALSE
  /\ irqEnabled' = TRUE
  /\ UNCHANGED <<irqBefore, issued, op, taken, cs_restore, pc, restore, wbytes, myFrame, nframes, openFrames,
                 codecCalls, console, panicked, ncalls>>

NextProducer ==
  \/ \E c \in Ctx : AcquireEnter(c) /\ UNCHANGED cvars
  \/ \E c \in Ctx : AcquireCheck(c) /\ UNCHANGED cvars
  \/ \E c \in Ctx : AcquireStart(c) /\ UNCHANGED cvars
  \/ \E c \in Ctx : WriteCheck(c) /\ UNCHANGED cvars
  \/ \E c \in Ctx : WriteCodec(c) /\ UNCHANGED cvars
  \/ \E c \in Ctx : ReleaseCheck(c) /\ UNCHANGED cvars
  \/ \E c \in Ctx : ReleaseEndFrame(c) /\ UNCHANGED cvars
  \/ \E c \in Ctx : ReleaseRestore(c) /\ UNCHANGED cvars
  \/ \E c \in Ctx : ReleaseCs(c) /\ UNCHANGED cvars
  \/ IrqEnter /\ UNCHANGED cvars
  \/ IrqReturn /\ UNCHANGED cvars

(***************************************************************************)
(* Consumer: child process supervisor and run loop (main.rs).              *)
(***************************************************************************)
\* lines the child may write (run-loop specification)
MaxLines == 2

NoCode == [some |-> FALSE, v |-> 0]
SomeCode(n) == [some |-> TRUE, v |-> n]

\* exit codes a child may end with; NoCode is a child ended by a signal
ChildCodes == {SomeCode(0), SomeCode(3), NoCode}

\* sample output lines of the child
PlainLine == <<"a", "\n">>
FramedLine == Marker \o <<"0", "A", "]", "\n">>
SplitCharLine == Marker \o <<"4", Lead, Cont, "]", "\n">>
BadUtf8Line == <<Cont, "\n">>
SampleLines == {PlainLine, FramedLine, SplitCharLine, BadUtf8Line}

\* what read_line accepts: well-formed UTF-8
ValidUtf8(line) ==
  \A i \in 1..Len(line) :
    /\ line[i] = Lead => (i < Len(line) /\ line[i + 1] = Cont)
    /\ line[i] = Cont => (i > 1 /\ line[i - 1] = Lead)

\* a Drop that leaves the child alone (used as a fault of KillOnDropDrop)
KillOnDropForget(state) == state

\* KillOnDrop::drop, lines 133-137: self.0.kill().ok()
KillOnDropDrop(state) == IF state = "running" THEN "killed" ELSE state

\* a main that maps every Ok to success (used as a fault of MainExit)
MainExitAlwaysZero(kind, code) ==
  IF kind = "ok" THEN 0 ELSE IF kind = "err" THEN 1 ELSE 101

\* main, lines 17-23, and the Rust runtime: Ok(Some(code)) exits with code,
\* Ok(None) returns Ok(()) (status 0), Err(_) exits 1, a panic exits 101
MainExit(kind, code) ==
  IF kind = "ok" THEN (IF code.some THEN code.v ELSE 0)
  ELSE IF kind = "err" THEN 1
  ELSE 101

InitConsumer ==
  /\ cpc = "start"
  /\ cause = "none"
  /\ diag = FALSE
  /\ exitStatus = -1
  /\ childState = "none"
  /\ childCode = NoCode
  /\ stdoutOpen = FALSE
  /\ pipe = <<>>
  /\ nwritten = 0
  /\ printed = <<>>
  /\ feeds = <<>>
  /\ drains = 0
  /\ cursor = <<>>
  /\ rendered = <<>>
  /\ drainLog = <<>>
  /\ kinds = <<>>
  /\ stderrHeld = 0
  /\ stderrShown = 0

\* notmain returns (or unwinds): `child` goes out of scope, then main ends the process
Return(kind, code, why, said) ==
  /\ cpc' = "returned"
  /\ cause' = why
  /\ diag' = (diag \/ said)
  /\ exitStatus' = MainExit(kind, code)
  /\ childState' = KillOnDropDrop(childState)

\* lines 26-43: arguments, ELF read, symbol table
StartupOutcomes == {"usage", "read_elf", "table_err", "no_table", "ok"}

Startup ==
  /\ cpc = "start"
  /\ \E o \in StartupOutcomes :
       IF o = "ok"
         THEN /\ cpc' = "spawn"
              /\ UNCHANGED <<cause, diag, exitStatus, childState>>
         ELSE Return("err", NoCode, o, TRUE)
  /\ UNCHANGED <<childCode, stdoutOpen, pipe, nwritten, printed, feeds, drains,
                 decvars, errvars>>

\* lines 45-58: spawn (expect) and stdout.take()
Spawn ==
  /\ cpc = "spawn"
  /\ \E spawnOk \in BOOLEAN, takeOk \in BOOLEAN :
       IF ~spawnOk
         THEN /\ Return("panic", NoCode, "spawn", TRUE)
              /\ UNCHANGED stdoutOpen
       ELSE IF ~takeOk
         THEN /\ cpc' = "returned"
              /\ cause' = "stdout_take"
              /\ diag' = TRUE
              /\ exitStatus' = MainExit("err", NoCode)
              /\ childState' = KillOnDropDrop("running")
              /\ UNCHANGED stdoutOpen
       ELSE /\ cpc' = "loop"
            /\ childState' = "running"
            /\ stdoutOpen' = TRUE
            /\ UNCHANGED <<cause, diag, exitStatus>>
  /\ UNCHANGED <<childCode, pipe, nwritten, printed, feeds, drains, decvars, errvars>>

\* ---- the child process, running on its own ----
ChildWrite ==
  /\ cpc = "loop" /\ childState = "running" /\ stdoutOpen
  /\ nwritten < MaxLines
  /\ \E l \in SampleLines : pipe' = Append(pipe, l)
  /\ nwritten' = nwritten + 1
  /\ UNCHANGED <<cpc, cause, diag, exitStatus, childState, childCode, stdoutOpen,
                 printed, feeds, drains, decvars, errvars>>

\* the child writes a line to its standard error; line 49 decides where it goes,
\* and nothing in notmain reads child.stderr
MaxErrLines == 1

ChildWriteStderr ==
  /\ cpc = "loop" /\ childState = "running"
  /\ stderrHeld + stderrShown < MaxErrLines
  /\ IF StderrCfg = "piped"
       THEN stderrHeld' = stderrHeld + 1 /\ UNCHANGED stderrShown
       ELSE stderrShown' = stderrShown + 1 /\ UNCHANGED stderrHeld
  /\ UNCHANGED <<cpc, cause, diag, exitStatus, childState, childCode, stdoutOpen, pipe,
                 nwritten, printed, feeds, drains, decvars>>

ChildCloseStdout ==
  /\ cpc = "loop" /\ childState = "running" /\ stdoutOpen
  /\ stdoutOpen' = FALSE
  /\ UNCHANGED <<cpc, cause, diag, exitStatus, childState, childCode, pipe, nwritten,
                 printed, feeds, drains, decvars, errvars>>

ChildExit ==
  /\ cpc = "loop" /\ childState = "running"
  /\ \E code \in ChildCodes : childCode' = code
  /\ childState' = "exited"
  /\ stdoutOpen' = FALSE
  /\ UNCHANGED <<cpc, cause, diag, exitStatus, pipe, nwritten, printed, feeds, drains,
                 decvars, errvars>>

\* a poll that never notices the exit (used as a fault of Poll)
PollNeverSeesExit(waitOk, why) ==
  IF ~waitOk THEN Return("err", NoCode, "try_wait", TRUE)
  ELSE UNCHANGED <<cpc, cause, diag, exitStatus, childState>>

\* child.0.try_wait()? followed by `break status.code()`, lines 71-73 and 107-109:
\* an error returns, an exited child ends the loop, otherwise the loop goes on
Poll(waitOk, why) ==
  IF ~waitOk THEN Return("err", NoCode, "try_wait", TRUE)
  ELSE IF childState = "exited" THEN Return("ok", childCode, why, FALSE)
  ELSE UNCHANGED <<cpc, cause, diag, exitStatus, childState>>

\* ---- one iteration of the loop, lines 66-110 ----
\* Ok(0): end of stream
ReadEof ==
  /\ cpc = "loop" /\ pipe = <<>> /\ ~stdoutOpen
  /\ \E waitOk \in BOOLEAN : Poll(waitOk, "exit_eof_poll")
  /\ UNCHANGED <<childCode, stdoutOpen, pipe, nwritten, printed, feeds, drains,
                 decvars, errvars>>

\* Ok(_): a line was read
ReadLine ==
  /\ cpc = "loop" /\ pipe # <<>> /\ ValidUtf8(Head(pipe))
  /\ pipe' = Tail(pipe)
  /\ \E r \in {ProcessLine(Head(pipe))} :
     \E d \in {Drain(FeedCursor(cursor, r.bytes), <<>>)} :
         /\ printed' = IF r.kind = "print" THEN Append(printed, r.out) ELSE printed
         /\ feeds' = IF r.kind = "feed" THEN Append(feeds, r.bytes) ELSE feeds
         /\ drains' = IF r.kind = "feed" THEN drains + 1 ELSE drains
         \* lines 92-93: received, then `let _ = decode(..)`: the result is dropped
         /\ cursor' = IF r.kind = "feed" THEN d.cursor ELSE cursor
         /\ rendered' = IF r.kind = "feed" THEN rendered \o d.frames ELSE rendered
         /\ drainLog' = IF r.kind = "feed"
                          THEN Append(drainLog, [ok |-> d.ok, end |-> d.end,
                                                 n |-> Len(d.frames)])
                          ELSE drainLog
         /\ kinds' = Append(kinds, r.kind)
         /\ IF r.kind = "panic"
              THEN Return("panic", NoCode, "hex_panic", TRUE)
              ELSE \E waitOk \in BOOLEAN : Poll(waitOk, "exit_line_poll")
  /\ UNCHANGED <<childCode, stdoutOpen, nwritten, errvars>>

\* Err(e): eprintln and `break None`
ReadError ==
  /\ cpc = "loop" /\ pipe # <<>> /\ ~ValidUtf8(Head(pipe))
  /\ pipe' = Tail(pipe)
  /\ Return("ok", NoCode, "io_read", TRUE)
  /\ UNCHANGED <<childCode, stdoutOpen, nwritten, printed, feeds, drains,
                 decvars, errvars>>

NextConsumer ==
  \/ Startup /\ UNCHANGED pvars
  \/ Spawn /\ UNCHANGED pvars
  \/ ChildWrite /\ UNCHANGED pvars
  \/ ChildWriteStderr /\ UNCHANGED pvars
  \/ ChildCloseStdout /\ UNCHANGED pvars
  \/ ChildExit /\ UNCHANGED pvars
  \/ ReadEof /\ UNCHANGED pvars
  \/ ReadLine /\ UNCHANGED pvars
  \/ ReadError /\ UNCHANGED pvars

(***************************************************************************)
(* One iteration of the loop on an arbitrary line: the child has written   *)
(* one line, drawn from LineInputs, and the consumer is about to read it.  *)
(***************************************************************************)
\* code units between the marker (if any) and the end of the line
MaxPayload == 3

BodyAlphabet == {"4", "a", "G", "+", "]", Lead, Cont}

LinePrefixes == {<<>>, Marker, <<"x">> \o Marker}

LineTails == {<<>>, <<"\n">>, <<"]">>, <<"]", "\n">>, <<"]", "x", "\n">>}

LineInputs ==
  {p \o b \o t : p \in LinePrefixes, b \in SeqsUpTo(BodyAlphabet, MaxPayload),
                 t \in LineTails} \ {<<>>}

InitLine ==
  /\ cpc = "loop"
  /\ cause = "none"
  /\ diag = FALSE
  /\ exitStatus = -1
  /\ childState = "running"
  /\ childCode = NoCode
  /\ stdoutOpen = TRUE
  /\ pipe \in {<<l>> : l \in LineInputs}
  /\ nwritten = 1
  /\ printed = <<>>
  /\ feeds = <<>>
  /\ drains = 0
  /\ cursor = <<>>
  /\ rendered = <<>>
  /\ drainLog = <<>>
  /\ kinds = <<>>
  /\ stderrHeld = 0
  /\ stderrShown = 0

NextLine ==
  \/ ChildCloseStdout /\ UNCHANGED pvars
  \/ ChildExit /\ UNCHANGED pvars
  \/ ReadEof /\ UNCHANGED pvars
  \/ ReadLine /\ UNCHANGED pvars
  \/ ReadError /\ UNCHANGED pvars

(***************************************************************************)
(* The loop on framed lines that carry decoder frames: whole frames,       *)
(* frames split over two lines, malformed frames, several frames in one    *)
(* line, with plain text in between.                                       *)
(***************************************************************************)
\* lines the child writes in one run
MaxDecodeLines == 3

DecodeFeeds ==
  { <<1>>, <<1, FrameEnd>>, <<BadByte, FrameEnd>>, <<1, FrameEnd, 1, FrameEnd>>,
    <<BadByte, FrameEnd, 1, FrameEnd>>, <<1, FrameEnd, 1>> }

DecodeLines ==
  {Marker \o HexPayload(b) \o <<"]", "\n">> : b \in DecodeFeeds} \cup {PlainLine}

ChildWriteFrames ==
  /\ cpc = "loop" /\ childState = "running" /\ stdoutOpen
  /\ nwritten < MaxDecodeLines
  /\ \E l \in DecodeLines : pipe' = Append(pipe, l)
  /\ nwritten' = nwritten + 1
  /\ UNCHANGED <<cpc, cause, diag, exitStatus, childState, childCode, stdoutOpen,
                 printed, feeds, drains, decvars, errvars>>

InitDecode ==
  /\ InitProducer
  /\ cpc = "loop"
  /\ cause = "none"
  /\ diag = FALSE
  /\ exitStatus = -1
  /\ childState = "running"
  /\ childCode = NoCode
  /\ stdoutOpen = TRUE
  /\ pipe = <<>>
  /\ nwritten = 0
  /\ printed = <<>>
  /\ feeds = <<>>
  /\ drains = 0
  /\ cursor = <<>>
  /\ rendered = <<>>
  /\ drainLog = <<>>
  /\ kinds = <<>>
  /\ stderrHeld = 0
  /\ stderrShown = 0

NextDecode ==
  \/ ChildWriteFrames /\ UNCHANGED pvars
  \/ ChildCloseStdout /\ UNCHANGED pvars
  \/ ChildExit /\ UNCHANGED pvars
  \/ ReadEof /\ UNCHANGED pvars
  \/ ReadLine /\ UNCHANGED pvars

Init == InitProducer /\ InitConsumer

InitOneLine == InitProducer /\ InitLine

Spec == Init /\ [][NextProducer]_vars

SpecConsumer == Init /\ [][NextConsumer]_vars

\* The consumer is a running thread: an iteration of its loop that can be made is
\* made.  Nothing obliges try_wait to fail, so fairness is asked only of the
\* iterations in which it succeeds.
LoopIteration == (ReadEof \/ ReadLine \/ ReadError) /\ cause' # "try_wait" /\ UNCHANGED pvars

SpecConsumerFair == Init /\ [][NextConsumer]_vars /\ WF_vars(LoopIteration)

SpecLine == InitOneLine /\ [][NextLine]_vars

SpecDecode == InitDecode /\ [][NextDecode]_vars

(***************************************************************************)
(* Properties of the producer.                                             *)
(***************************************************************************)
\* the call of context c ends in panic! and nothing reaches the codec or the console
FailsFatally(c) ==
  /\ panicked' /\ pc'[c] = "panic"
  /\ codecCalls' = codecCalls /\ console' = console
  /\ openFrames' = openFrames /\ nframes' = nframes

\* C1: an acquire that finds the encoder locked, and a write or a release issued
\* while it is not locked, always ends in a panic; the call is never accepted and
\* makes no call to the codec.
C1_MisuseFailsFatally ==
  [][\A c \in Ctx :
       /\ (pc[c] = "acq_check" /\ taken /\ pc'[c] # pc[c]) => FailsFatally(c)
       /\ (pc[c] = "idle" /\ pc'[c] # "idle" /\ op'[c] \in {"write", "release"} /\ ~taken)
            => FailsFatally(c)]_vars

C1_Witness ==
  /\ panicked
  /\ op["main"] = "acquire" /\ pc["main"] = "panic"
  /\ taken /\ openFrames = 1

\* the lines of one frame are contiguous on the console
FramesNotInterleaved ==
  \A i, k \in 1..Len(console) :
    (i < k /\ console[i].frame = console[k].frame)
      => \A j \in i..k : console[j].frame = console[i].frame

\* C2: under every interleaving of the main and the interrupt-like context,
\* taken implies that the critical section is held, at most one frame is open,
\* and the console lines of one frame are never interleaved with another frame's.
C2_FramingAtomic ==
  /\ taken => ~irqEnabled
  /\ openFrames <= 1
  /\ FramesNotInterleaved

C2_Witness ==
  /\ \E i, j \in 1..Len(console) :
       /\ console[i].ctx = "main" /\ console[j].ctx = "irq"
       /\ console[i].bytes # <<>> /\ console[j].bytes # <<>>
  /\ taken

\* the hex payload of a console line: the text between the marker and "]\n"
PayloadOf(text) ==
  StripSuffix(StripPrefix(text, ProducerMarker).v, <<"]", "\n">>).v

\* C3: for every byte sequence the codec hands to write_bytes, the consumer's
\* pairwise hex decoding of the payload written on the line gives back exactly
\* those bytes, in order.
C3_HexRoundTrip ==
  \A i \in 1..Len(console) :
    LET r == HexBytes(PayloadOf(console[i].text))
    IN  ~r.panic /\ r.bytes = console[i].bytes

C3_Witness ==
  \E i \in 1..Len(console) :
    /\ Len(console[i].bytes) = 2
    /\ console[i].bytes[1] < 16 /\ console[i].bytes[2] >= 16


\* C14: release leaves the critical section with the token its matching acquire
\* stored, so the interrupt state after the release is the one that was active
\* just before that acquire, also when the section was already entered.
C14_ReleaseRestoresState ==
  [][\A c \in Ctx :
       (pc[c] = "rel_cs" /\ pc'[c] = "idle")
         => /\ restore[c] = CsToken(irqBefore[c])
            /\ irqEnabled' = irqBefore[c]]_vars

C14_Witness ==
  /\ irqActive /\ ~panicked /\ ~taken
  /\ op["irq"] = "release" /\ pc["irq"] = "idle"
  /\ irqBefore["irq"] = FALSE /\ irqEnabled = FALSE
  /\ op["main"] = "release" /\ irqBefore["main"] = TRUE

\* the calls alternate start_frame, write*, end_frame
RECURSIVE Bracketed(_, _)
Bracketed(calls, open) ==
  IF calls = <<>> THEN TRUE
  ELSE IF Head(calls).op = "start_frame" THEN ~open /\ Bracketed(Tail(calls), TRUE)
  ELSE IF Head(calls).op = "write" THEN open /\ Bracketed(Tail(calls), TRUE)
  ELSE open /\ Bracketed(Tail(calls), FALSE)

IsWriteCall(call) == call.op = "write"

\* the byte slices of the codec's write calls, in call order
CodecWrites ==
  LET w == SelectSeq(codecCalls, IsWriteCall)
  IN  [i \in 1..Len(w) |-> w[i].bytes]

\* C17: the codec is called in brackets (start_frame, any number of writes, one
\* end_frame, then the next start_frame), one frame is open at a time, and the
\* write calls reach it in the order they were issued.
C17_CodecCallsBracketed ==
  /\ Bracketed(codecCalls, FALSE)
  /\ openFrames \in {0, 1}
  /\ Len(CodecWrites) <= Len(issued)
  /\ Len(issued) <= Len(CodecWrites) + 1
  /\ CodecWrites = SubSeq(issued, 1, Len(CodecWrites))

C17_Witness ==
  /\ Len(codecCalls) = 4
  /\ codecCalls[1].op = "start_frame" /\ codecCalls[4].op = "end_frame"
  /\ codecCalls[2].op = "write" /\ codecCalls[3].op = "write"
  /\ codecCalls[2].bytes # <<>> /\ codecCalls[3].bytes # <<>>
  /\ codecCalls[2].bytes # codecCalls[3].bytes

\* no call is in progress
Quiescent == \A c \in Ctx : pc[c] = "idle"

\* C18 (as claimed): the stored restore token is defined if and only if the encoder
\* is locked; it is invalid at start and after every release.
C18_TokenDefinedIffLocked == Quiescent => ((cs_restore # "invalid") <=> taken)

\* C18 (amended): the stored token is invalid until the first acquire and defined
\* whenever the encoder is locked; release does not reset it, so from the first
\* acquire on it stays defined, also while the encoder is unlocked.
C18_TokenDefinedWhileLocked ==
  Quiescent =>
    /\ taken => cs_restore # "invalid"
    /\ (cs_restore = "invalid") <=> (nframes = 0)

C18_Witness ==
  /\ Quiescent /\ ~taken /\ ~panicked
  /\ nframes = 1 /\ openFrames = 0
  /\ cs_restore = "was_enabled"

\* C19: every line write_bytes puts on the console is taken by the consumer's
\* line test as a framed payload, and a non-empty payload is fed to the decoder
\* instead of being printed.
C19_ProducerLinesAreFramed ==
  \A i \in 1..Len(console) :
    /\ IsFramed(console[i].text)
    /\ console[i].bytes # <<>> => ProcessLine(console[i].text).kind = "feed"

(***************************************************************************)
(* Properties of the consumer.                                             *)
(***************************************************************************)
\* the run ended because a poll saw that the child had exited
EndedByChildExit == cpc = "returned" /\ cause \in {"exit_eof_poll", "exit_line_poll"}

\* C4: every line the child wrote before it exited has been read and processed
\* when the loop ends on the child's exit; none is left unread in the pipe.
C4_NoLineLeftUnread == EndedByChildExit => pipe = <<>>

\* the step reads the line at the head of the pipe with Ok(_)
ReadsLine ==
  /\ cpc = "loop" /\ pipe # <<>> /\ ValidUtf8(Head(pipe))
  /\ pipe' = Tail(pipe)

\* index of the last "]" of a line that has one
LastDelimiter(l) == CHOOSE i \in 1..Len(l) : l[i] = "]" /\ \A j \in (i + 1)..Len(l) : l[j] # "]"

\* the hex text between the marker and the closing delimiter
TextToDelimiter(l) == SubSeq(l, Len(Marker) + 1, LastDelimiter(l) - 1)

\* C5: for a line that begins with the marker and contains the closing delimiter,
\* the consumer feeds the bytes recovered from the hex text between them exactly
\* once and drains once when there is at least one byte, and does not feed when
\* there is none.
C5_OneFeedPerFramedLine ==
  [][ReadsLine =>
       LET l == Head(pipe)
       IN  (StartsWith(l, Marker) /\ Contains(l, "]") /\ ~HexBytes(TextToDelimiter(l)).panic)
           => IF HexBytes(TextToDelimiter(l)).bytes # <<>>
                THEN /\ feeds' = Append(feeds, HexBytes(TextToDelimiter(l)).bytes)
                     /\ drains' = drains + 1
                ELSE feeds' = feeds /\ drains' = drains]_vars

\* the claim's plain-text lines: no marker at the start, or a marker and no delimiter
IsPlainText(l) == ~StartsWith(l, Marker) \/ ~Contains(l, "]")

\* C6: every plain-text line (one that does not begin with the marker, or begins
\* with it and holds no closing delimiter) is written to the output unchanged,
\* code unit for code unit, and nothing is fed to the decoder for it.
C6_PlainTextVerbatim ==
  [][(ReadsLine /\ IsPlainText(Head(pipe)))
       => /\ printed' = Append(printed, Head(pipe))
          /\ feeds' = feeds /\ drains' = drains]_vars

C6_Witness ==
  /\ Len(printed) = 1 /\ feeds = <<>>
  /\ StartsWith(printed[1], <<"x">> \o Marker)
  /\ EndsWith(printed[1], <<"]", "\n">>)

\* C7: decoding the hex payload of a framed line is never fatal: whatever the
\* payload text holds, the run does not end in a panic.
C7_HexDecodeNeverFatal == cause # "hex_panic"

\* C8: once the consumer has returned, on any path, the child is not running.
C8_ChildNotRunningAfterReturn == cpc = "returned" => childState # "running"

C8_Witness ==
  /\ cpc = "returned" /\ cause = "io_read"
  /\ childState = "killed"

\* C9: when the loop ends because the child exited, the consumer's exit status is
\* the child's exit code, and success (0) when the child has no code.
C9_ExitCodePropagated ==
  EndedByChildExit => exitStatus = (IF childCode.some THEN childCode.v ELSE 0)

C9_Witness ==
  /\ cpc = "returned" /\ cause = "exit_line_poll"
  /\ childCode = SomeCode(3) /\ exitStatus = 3

\* C10: a run ended by a fatal error (no symbol table, spawn failure, read error)
\* has printed a diagnostic and exits with a non-zero status.
C10_FatalErrorNonZeroExit ==
  (cpc = "returned" /\ cause \in {"no_table", "spawn", "io_read"})
    => (diag /\ exitStatus # 0)

\* the claim's reading of a hex payload: the aligned pairs made of two hex
\* digits, in order; any other pair and a final lone character give nothing
IsHexDigit(ch) == ToDigit16(ch) >= 0

RECURSIVE PairBytes(_)
PairBytes(h) ==
  IF Len(h) < 2 THEN <<>>
  ELSE (IF IsHexDigit(h[1]) /\ IsHexDigit(h[2])
          THEN <<ToDigit16(h[1]) * 16 + ToDigit16(h[2])>>
        ELSE <<>>) \o PairBytes(SubSeq(h, 3, Len(h)))

\* C16: the bytes extracted from a hex payload substring are exactly, in order,
\* the values of the aligned two-character pairs that consist of two hex digits;
\* every other aligned pair contributes no byte and a final lone character is
\* ignored.
C16_OnlyHexDigitPairs ==
  [][ReadsLine =>
       LET l == Head(pipe)
           h == HexStr(l)
       IN  (IsFramed(l) /\ h.some /\ ~HexBytes(h.v).panic)
           => feeds' = IF PairBytes(h.v) = <<>> THEN feeds
                       ELSE Append(feeds, PairBytes(h.v))]_vars

\* C13: only the child's standard output is captured; its standard error passes
\* through, so no line the child writes to standard error is held in a channel
\* that the consumer owns and never reads.
C13_StderrNotHeld == stderrHeld = 0

\* C15: once the child has exited (its output stream is then closed) the run loop
\* eventually terminates; and an end-of-stream read ends the loop only when the
\* child has exited, so with the child alive it only leads to another poll.
C15_LoopTerminatesAfterExit ==
  /\ (cpc = "loop" /\ childState = "exited") ~> (cpc = "returned")
  /\ [][(cpc = "loop" /\ cpc' = "returned" /\ cause' = "exit_eof_poll")
          => (childState = "exited" /\ pipe = <<>> /\ ~stdoutOpen)]_vars

C15_Witness ==
  /\ cpc = "returned" /\ cause = "exit_eof_poll" /\ childState = "exited"
  /\ Len(kinds) = MaxLines

\* the step reads a line that is fed to the decoder
FeedsLine == ReadsLine /\ ProcessLine(Head(pipe)).kind = "feed"

\* C11: draining never raises an error and never stops the loop: the drain after
\* a feed ends with success, on incomplete and on malformed data alike; no frame
\* is rendered for bytes that are not a well-formed frame; and the loop goes on,
\* unless the poll that follows finds the child gone or fails.
C11_DrainNeverFails ==
  [][FeedsLine =>
       /\ Len(drainLog') = Len(drainLog) + 1
       /\ drainLog'[Len(drainLog')].ok
       /\ drainLog'[Len(drainLog')].end \in {"eof", "malformed"}
       /\ \A i \in 1..Len(rendered') : WellFormed(rendered'[i])
       /\ Len(rendered') = Len(rendered) + drainLog'[Len(drainLog')].n
       /\ \/ cpc' = "loop" /\ cause' = "none"
          \/ cpc' = "returned" /\ cause' = "try_wait"
          \/ cpc' = "returned" /\ cause' = "exit_line_poll" /\ childState = "exited"]_vars

C11_Witness ==
  /\ cpc = "loop" /\ cause = "none" /\ pipe # <<>>
  /\ Len(drainLog) = 2
  /\ drainLog[1].end = "malformed" /\ drainLog[1].ok /\ drainLog[1].n = 0
  /\ drainLog[2].end = "eof" /\ drainLog[2].ok /\ drainLog[2].n = 0
  /\ rendered = <<>>

\* the bytes of a feed end one frame, at their last position
EndsOneFrame(bytes) ==
  /\ bytes # <<>> /\ bytes[Len(bytes)] = FrameEnd
  /\ ~HasFrameEnd(SubSeq(bytes, 1, Len(bytes) - 1))

\* C12: the one cursor keeps partial frame state across feeds and is never
\* reset: a line that is not fed leaves it unchanged; a feed that completes no
\* frame renders nothing, raises no error and is kept in the cursor; and the
\* feed that completes a frame begun by earlier feeds renders exactly that one
\* frame, made of the bytes of all those feeds.
C12_CursorKeptAcrossFeeds ==
  [][ReadsLine =>
       LET r == ProcessLine(Head(pipe))
           whole == cursor \o r.bytes
       IN  /\ r.kind # "feed" => (cursor' = cursor /\ rendered' = rendered)
           /\ (r.kind = "feed" /\ ~HasFrameEnd(whole))
                => /\ rendered' = rendered
                   /\ cursor' = whole
                   /\ drainLog'[Len(drainLog')].ok
           /\ (r.kind = "feed" /\ cursor # <<>> /\ ~HasFrameEnd(cursor)
                 /\ EndsOneFrame(r.bytes) /\ WellFormed(SubSeq(whole, 1, Len(whole) - 1)))
                => /\ rendered' = Append(rendered, SubSeq(whole, 1, Len(whole) - 1))
                   /\ cursor' = <<>>]_vars

C12_Witness ==
  /\ kinds = <<"feed", "print", "feed">>
  /\ feeds = <<<<1>>, <<1, FrameEnd>>>>
  /\ drainLog[1].ok /\ drainLog[1].n = 0 /\ drainLog[1].end = "eof"
  /\ drainLog[2].ok /\ drainLog[2].n = 1
  /\ rendered = <<<<1, 1>>>>
  /\ cursor = <<>>

\* the well-formed frames that are complete in the cursor
RECURSIVE PendingFrames(_)
PendingFrames(cur) ==
  IF ~HasFrameEnd(cur) THEN <<>>
  ELSE LET k == FirstEnd(cur)
           body == SubSeq(cur, 1, k - 1)
       IN  (IF WellFormed(body) THEN <<body>> ELSE <<>>)
             \o PendingFrames(SubSeq(cur, k + 1, Len(cur)))

\* C20: each drain renders every frame the fed bytes have completed: between
\* iterations of the loop the cursor holds no complete well-formed frame that is
\* still unrendered.
C20_NoCompleteFrameLeft == PendingFrames(cursor) = <<>>

====
